---- MODULE Spec2Model ----
(***************************************************************************)
(* A model of the CalDAV calendar layer: the identity codec                *)
(* (user|calendar_id|event_uid), the timezone normaliser, the CalDAVClient *)
(* gateway (src/schedule/calendar.py) and the two Calendar Event document  *)
(* adapters with their format_event translators                            *)
(* (frappe_calendar/.../calendar_event.py and                              *)
(* schedule/.../calendar_event.py).                                        *)
(*                                                                         *)
(* Conventions.                                                            *)
(*   - Python None is <<>>, a present value v is <<v>> (Some(v)).          *)
(*   - Identity strings are sequences of one-character strings so that     *)
(*     str.split("|") is computed; free-text fields are TLA+ strings.      *)
(*   - A datetime object is [t |-> minutes, off |-> None or Some(offset)]; *)
(*     its text rendering is [wall |-> minutes, tz |-> None or Some(o)].   *)
(***************************************************************************)
EXTENDS Integers, Sequences, FiniteSets, TLC

VARIABLES
    profile,    \* which document adapter is deployed
    cals,       \* remote: [calendar id -> None or Some(display name)]
    events,     \* remote: [calendar id -> [resource key -> VEVENT or NoEvent]]
    clock,      \* the UTC wall clock read by now()
    uuidCount,  \* how many identifiers uuid7() has issued
    doc,        \* [process -> the Document object it holds, or NoDoc]
    pc,         \* [process -> "idle" | "save"] position inside update_event
    held,       \* [process -> the update in flight, or NoHeld]
    last        \* the record of the call that completed last

vars == <<profile, cals, events, clock, uuidCount, doc, pc, held, last>>

----------------------------------------------------------------------------
(* Python values *)

None == <<>>
Some(v) == <<v>>

\* Python truthiness of an optional str: None and "" are falsy.
Truthy(o) == o # None /\ o[1] # ""

----------------------------------------------------------------------------
(* Identity codec: f"{user}|{cal_id}|{uid}" and name.split("|") *)

Delim == "|"

\* str.split("|", 1): a split at the first delimiter only.
Split_Once(s) ==
    IF \A i \in DOMAIN s : s[i] # Delim
    THEN <<s>>
    ELSE LET i == CHOOSE k \in DOMAIN s :
                      s[k] = Delim /\ \A j \in 1..(k - 1) : s[j] # Delim
         IN  <<SubSeq(s, 1, i - 1), SubSeq(s, i + 1, Len(s))>>

RECURSIVE Split(_)
\* str.split("|"): the parts between the delimiters, empty parts included.
Split(s) ==
    IF \A i \in DOMAIN s : s[i] # Delim
    THEN <<s>>
    ELSE LET i == CHOOSE k \in DOMAIN s :
                      s[k] = Delim /\ \A j \in 1..(k - 1) : s[j] # Delim
         IN  <<SubSeq(s, 1, i - 1)>> \o Split(SubSeq(s, i + 1, Len(s)))

\* f"{a}|{b}"
Join2(a, b) == a \o <<Delim>> \o b

\* f"{calendar}|{uid}" with calendar = f"{user}|{cal_id}"
Join3(a, b, c) == Join2(Join2(a, b), c)

\* user, cal_id, event_uid = name.split("|"): ValueError unless 3 parts.
UnpackEvent(name) ==
    LET parts == Split(name)
    IN  IF Len(parts) = 3
        THEN [ok |-> TRUE, user |-> parts[1], cal |-> parts[2], uid |-> parts[3]]
        ELSE [ok |-> FALSE, user |-> <<>>, cal |-> <<>>, uid |-> <<>>]

\* user, cal_id = name.split("|"): ValueError unless 2 parts.
UnpackCalendar(name) ==
    LET parts == Split(name)
    IN  IF Len(parts) = 2
        THEN [ok |-> TRUE, user |-> parts[1], cal |-> parts[2]]
        ELSE [ok |-> FALSE, user |-> <<>>, cal |-> <<>>]

----------------------------------------------------------------------------
(* Timezone normaliser *)

\* get_system_timezone(): the site's zone, as a whole-minute offset from UTC.
SystemOffset == 330

\* get_datetime(text): parse the rendering back into a datetime object.
get_datetime(s) == [t |-> s.wall, off |-> s.tz]

\* str(datetime)
StrOf(dt) == [wall |-> dt.t, tz |-> dt.off]

\* convert_to_utc without the "dt.tzinfo is None" test: the zone of the
\* argument is replaced, not honoured.
convert_to_utc_ReplacesZone(text, from_timezone, naive) ==
    LET dt  == get_datetime(text)
        off == IF from_timezone = None THEN SystemOffset ELSE from_timezone[1]
        utc == dt.t - off
    IN  IF naive THEN [t |-> utc, off |-> None] ELSE [t |-> utc, off |-> Some(0)]

\* convert_to_utc(date_time, from_timezone, naive)
convert_to_utc(text, from_timezone, naive) ==
    LET dt  == get_datetime(text)
        off == IF dt.off = None
               THEN (IF from_timezone = None THEN SystemOffset ELSE from_timezone[1])
               ELSE dt.off[1]
        utc == dt.t - off
    IN  IF naive THEN [t |-> utc, off |-> None] ELSE [t |-> utc, off |-> Some(0)]

\* frappe.utils.convert_utc_to_system_timezone: a naive value is UTC.
convert_utc_to_system_timezone(dt) ==
    LET utc == IF dt.off = None THEN dt.t ELSE dt.t - dt.off[1]
    IN  [t |-> utc + SystemOffset, off |-> Some(SystemOffset)]

\* format_event.to_local_str
to_local_str(dt) == StrOf(convert_utc_to_system_timezone(dt))

\* frappe.utils.now(): the clock in the system zone, rendered without a zone.
now(utcClock) == [wall |-> utcClock + SystemOffset, tz |-> None]

\* The instant (UTC minutes) a rendering denotes, a naive one read in the
\* system zone.
InstantOf(text) == convert_to_utc(text, None, TRUE).t

----------------------------------------------------------------------------
(* Python dicts: a function whose DOMAIN is the set of keys *)

EmptyDict == [k \in {} |-> None]

\* d[k] = v
DictSet(d, k, v) == [x \in (DOMAIN d) \cup {k} |-> IF x = k THEN v ELSE d[x]]

\* d.pop(k, None)
DictPop(d, k) == [x \in (DOMAIN d) \ {k} |-> d[x]]

\* d.get(k)
DictGet(d, k) == IF k \in DOMAIN d THEN d[k] ELSE None

----------------------------------------------------------------------------
(* The VEVENT object model (vobject): named properties with .value, and   *)
(* attendee properties with .params.  The serialised text the server      *)
(* stores is not modelled apart from the object it parses to.             *)

PropNames ==
    {"uid", "dtstamp", "dtstart", "dtend", "summary", "description",
     "location", "status", "organizer", "created", "last_modified"}

ParamNames == {"CN", "CUTYPE", "ROLE", "PARTSTAT", "X-NUM-GUESTS", "RSVP"}

\* vobject.iCalendar().add("vevent"): no property, no attendee.
NewVEvent == [props |-> [k \in PropNames |-> None], attendee_list |-> <<>>]

\* hasattr(vevent, key)
HasProp(vevent, key) == vevent.props[key] # None

\* A parameter value: missing (params.get gives None), a bare str, or a list.
NoParam == [kind |-> "none", items |-> <<>>]
StrParam(s) == [kind |-> "str", items |-> <<s>>]
ListParam(l) == [kind |-> "list", items |-> l]

NoParams == [k \in ParamNames |-> NoParam]

\* value.replace("mailto:", "") on an address held as a sequence of tokens.
StripMailto(addr) == SelectSeq(addr, LAMBDA tok : tok # "mailto:")

\* f"mailto:{email}"
Mailto(email) == <<"mailto:">> \o email

\* The resource a lookup returns: caldav's Event (parent.id, url, the parsed
\* VEVENT) or None.
NoEvent == [present |-> FALSE]
EventAt(cal, key, vevent) ==
    [present |-> TRUE, parent |-> cal, key |-> key, vevent |-> vevent]

\* str(event.url): the collection's path and the resource's name.
UrlOf(event) == event.parent \o <<"/">> \o event.key

----------------------------------------------------------------------------
(* Event translator, inbound *)

\* get_param without the isinstance(value, list) branch: a list is not read.
get_param_IgnoresList(value, default) ==
    IF value.kind = "str" /\ value.items[1] # ""
    THEN Some(value.items[1])
    ELSE default

\* format_event.get_param
get_param(value, default) ==
    IF value.kind = "list"
    THEN (IF value.items # <<>> THEN Some(value.items[1]) ELSE default)
    ELSE IF value.kind = "str" /\ value.items[1] # ""
         THEN Some(value.items[1])
         ELSE default

\* frappe.utils.cint on the guest counts used here; anything else is 0.
cint(o) == IF o = Some("1") THEN 1 ELSE IF o = Some("2") THEN 2 ELSE 0

\* field_obj and getattr(field_obj, "value", None): present with a truthy value.
TruthyProp(vevent, key) ==
    /\ vevent.props[key] # None
    /\ IF key \in {"summary", "description", "location", "status"}
       THEN vevent.props[key][1] # ""
       ELSE IF key = "organizer" THEN vevent.props[key][1] # <<>> ELSE TRUE

\* The attendee dict format_event appends.
FormatAttendee(att) ==
    [email        |-> StripMailto(att.value),
     cn           |-> get_param(att.params["CN"], None),
     cutype       |-> get_param(att.params["CUTYPE"], Some("INDIVIDUAL")),
     role         |-> get_param(att.params["ROLE"], Some("REQ-PARTICIPANT")),
     partstat     |-> get_param(att.params["PARTSTAT"], Some("NEEDS-ACTION")),
     x_num_guests |-> cint(get_param(att.params["X-NUM-GUESTS"], Some("0"))),
     rsvp         |-> IF get_param(att.params["RSVP"], None) = Some("FALSE")
                      THEN 0 ELSE 1]

\* What a failed translation leaves: the exception, no record.
FormatError(e) == [err |-> e]

\* frappe_calendar's format_event(user, event).  vevent.dtstamp.value is
\* evaluated as the default argument of both getattr calls, so a VEVENT
\* without dtstamp raises AttributeError, as does one without uid or dtstart.
format_event(user, event) ==
    LET vevent   == event.vevent
        calendar == Join2(user, event.parent)
        opt(key) == IF TruthyProp(vevent, key) THEN vevent.props[key] ELSE None
        status   == opt("status")
    IN  IF \E k \in {"dtstamp", "uid", "dtstart"} : ~HasProp(vevent, k)
        THEN FormatError("AttributeError")
        ELSE
          [err         |-> "",
           user        |-> user,
           calendar    |-> calendar,
           uid         |-> vevent.props["uid"][1],
           url         |-> UrlOf(event),
           name        |-> Join2(calendar, vevent.props["uid"][1]),
           dtstart     |-> to_local_str(vevent.props["dtstart"][1]),
           ical_raw    |-> Some(vevent),
           creation    |-> to_local_str(IF HasProp(vevent, "created")
                                        THEN vevent.props["created"][1]
                                        ELSE vevent.props["dtstamp"][1]),
           modified    |-> to_local_str(IF HasProp(vevent, "last_modified")
                                        THEN vevent.props["last_modified"][1]
                                        ELSE vevent.props["dtstamp"][1]),
           status      |-> IF status = None THEN Some("CONFIRMED") ELSE status,
           summary     |-> opt("summary"),
           location    |-> opt("location"),
           organizer   |-> IF TruthyProp(vevent, "organizer")
                           THEN Some(StripMailto(vevent.props["organizer"][1]))
                           ELSE None,
           description |-> opt("description"),
           dtend       |-> IF HasProp(vevent, "dtend")
                           THEN Some(to_local_str(vevent.props["dtend"][1]))
                           ELSE None,
           attendees   |-> Some([i \in DOMAIN vevent.attendee_list |->
                                    FormatAttendee(vevent.attendee_list[i])])]

\* schedule's format_event(user, event): creation and modified are dtstamp;
\* only summary, description and dtend are copied; the other keys are never
\* set, so the Document built from the dict holds None for them.
format_event_schedule(user, event) ==
    LET vevent   == event.vevent
        calendar == Join2(user, event.parent)
        opt(key) == IF TruthyProp(vevent, key) THEN vevent.props[key] ELSE None
    IN  IF \E k \in {"dtstamp", "uid", "dtstart"} : ~HasProp(vevent, k)
        THEN FormatError("AttributeError")
        ELSE
          [err         |-> "",
           user        |-> user,
           calendar    |-> calendar,
           uid         |-> vevent.props["uid"][1],
           url         |-> UrlOf(event),
           name        |-> Join2(calendar, vevent.props["uid"][1]),
           dtstart     |-> to_local_str(vevent.props["dtstart"][1]),
           ical_raw    |-> None,
           creation    |-> to_local_str(vevent.props["dtstamp"][1]),
           modified    |-> to_local_str(vevent.props["dtstamp"][1]),
           status      |-> None,
           summary     |-> opt("summary"),
           location    |-> None,
           organizer   |-> None,
           description |-> opt("description"),
           dtend       |-> IF HasProp(vevent, "dtend")
                           THEN Some(to_local_str(vevent.props["dtend"][1]))
                           ELSE None,
           attendees   |-> None]

----------------------------------------------------------------------------
(* Bounds and inputs *)

\* How many identifiers uuid7() issues in a run.
MaxUuid == 1

\* How far the clock runs.
MaxClock == 2

\* How many six-hour steps of wall time the normaliser is tried on.
MaxTime == 4

Procs == {1, 2}

User == <<"u">>
CalA == <<"a">>
CalB == <<"b">>
CalIds == {CalA, CalB}

\* The order in which principal.calendars() reports the collections.
CalOrder == <<CalA, CalB>>

\* str(uuid7()): the n-th identifier issued; never issued twice.
UuidOf(n) == <<ToString(n)>>

\* The UID a caller of the gateway's add_event chooses itself.
OwnUid == <<"f">>

\* The resource names a collection can hold.
EventKeys == {UuidOf(n) : n \in 1..MaxUuid} \cup {OwnUid}

NoDoc == [err |-> "NoDoc"]
NoHeld == [present |-> FALSE]

----------------------------------------------------------------------------
(* CalDAV gateway: src/schedule/calendar.py.  The operators read the       *)
(* remote state (cals, events) as one request to the server does.          *)

\* CalDAVClient.get_calendars
get_calendars == SelectSeq(CalOrder, LAMBDA c : cals[c] # None)

\* CalDAVClient.get_calendar(cal_id, raise_exception)
get_calendar(cal_id, raise_exception) ==
    IF \E i \in DOMAIN get_calendars : get_calendars[i] = cal_id
    THEN [err |-> "", calendar |-> Some(cal_id)]
    ELSE [err |-> IF raise_exception THEN "CalendarNotFound" ELSE "",
          calendar |-> None]

\* calendar.event_by_uid(uid): the resource whose UID property is uid, or
\* NotFoundError (NoEvent).
event_by_uid(calendar, uid) ==
    LET keys == IF calendar \in CalIds /\ cals[calendar] # None
                THEN {k \in EventKeys :
                         /\ events[calendar][k] # None
                         /\ events[calendar][k][1].props["uid"] = Some(uid)}
                ELSE {}
    IN  IF keys = {}
        THEN NoEvent
        ELSE LET k == CHOOSE x \in keys : TRUE
             IN  EventAt(calendar, k, events[calendar][k][1])

\* get_event that raises whenever nothing matches, whatever raise_exception.
get_event_Strict(calendar, event_uid, raise_exception) ==
    LET ev == event_by_uid(calendar, event_uid)
    IN  IF ev.present
        THEN [err |-> "", event |-> ev]
        ELSE [err |-> "EventNotFound", event |-> NoEvent]

\* CalDAVClient.get_event(calendar, event_uid, raise_exception)
get_event(calendar, event_uid, raise_exception) ==
    LET ev == event_by_uid(calendar, event_uid)
    IN  IF ev.present
        THEN [err |-> "", event |-> ev]
        ELSE [err |-> IF raise_exception THEN "EventNotFound" ELSE "",
              event |-> NoEvent]

\* A head that looks the pair up whenever it is complete, resource or not.
ResolveEvent_Eager(event, calendar, event_uid) ==
    IF calendar = None \/ event_uid = None \/ event_uid = Some(<<>>)
    THEN IF event.present
         THEN [err |-> "", event |-> event, lookups |-> 0]
         ELSE [err |-> "MissingReference", event |-> NoEvent, lookups |-> 0]
    ELSE LET r == get_event(calendar[1], event_uid[1], TRUE)
         IN  [err |-> r.err, event |-> r.event, lookups |-> 1]

\* The head of update_event and delete_event: use the resource given, else
\* require the complete (calendar, event_uid) pair and resolve it once.
\* "not event_uid" holds for None and for the empty string.
ResolveEvent(event, calendar, event_uid) ==
    IF event.present
    THEN [err |-> "", event |-> event, lookups |-> 0]
    ELSE IF calendar = None \/ event_uid = None \/ event_uid = Some(<<>>)
         THEN [err |-> "MissingReference", event |-> NoEvent, lookups |-> 0]
         ELSE LET r == get_event(calendar[1], event_uid[1], TRUE)
              IN  [err |-> r.err, event |-> r.event, lookups |-> 1]

\* The head of delete_calendar: the same pattern with cal_id.
ResolveCalendar(calendar, cal_id) ==
    IF calendar # None
    THEN [err |-> "", calendar |-> calendar, lookups |-> 0]
    ELSE IF cal_id = None \/ cal_id = Some(<<>>)
         THEN [err |-> "MissingReference", calendar |-> None, lookups |-> 0]
         ELSE LET r == get_calendar(cal_id[1], TRUE)
              IN  [err |-> r.err, calendar |-> r.calendar, lookups |-> 1]

\* The attendee property add_event builds from one entry of "attendees".
\* db_insert passes email, cn and role only, so PARTSTAT and RSVP take
\* their defaults.
BuildAttendee(att) ==
    [value  |-> Mailto(att.email),
     params |-> [k \in ParamNames |->
                   CASE k = "CN" /\ Truthy(att.cn)     -> StrParam(att.cn[1])
                     [] k = "ROLE" /\ Truthy(att.role) -> StrParam(att.role[1])
                     [] k = "PARTSTAT"                 -> StrParam("NEEDS-ACTION")
                     [] k = "RSVP"                     -> StrParam("TRUE")
                     [] OTHER                          -> NoParam]]

\* The VEVENT add_event builds from event_data: every key with a non-None
\* value becomes a property, "attendees" becomes the attendee properties.
BuildVEvent(event_data) ==
    [props |-> [k \in PropNames |-> DictGet(event_data.fields, k)],
     attendee_list |->
        IF event_data.attendees = None
        THEN <<>>
        ELSE [i \in DOMAIN event_data.attendees[1] |->
                 BuildAttendee(event_data.attendees[1][i])]]

\* update_event without updated_data.pop("uid", None).
MergeUpdate_KeepsUid(vevent, updated_data, utc_now) ==
    LET data == DictSet(updated_data, "dtstamp", Some(utc_now))
    IN  [vevent EXCEPT !.props =
            [k \in PropNames |->
                IF k \in DOMAIN data /\ data[k] # None
                THEN data[k]
                ELSE vevent.props[k]]]

\* update_event without the vevent.add(key) branch: absent properties stay
\* absent.
MergeUpdate_OverwriteOnly(vevent, updated_data, utc_now) ==
    LET data == DictSet(DictPop(updated_data, "uid"), "dtstamp", Some(utc_now))
    IN  [vevent EXCEPT !.props =
            [k \in PropNames |->
                IF k \in DOMAIN data /\ data[k] # None /\ vevent.props[k] # None
                THEN data[k]
                ELSE vevent.props[k]]]

\* update_event after the resolution: drop "uid", stamp dtstamp, then for
\* each key with a non-None value overwrite the property or add it.
MergeUpdate(vevent, updated_data, utc_now) ==
    LET data == DictSet(DictPop(updated_data, "uid"), "dtstamp", Some(utc_now))
    IN  [vevent EXCEPT !.props =
            [k \in PropNames |->
                IF k \in DOMAIN data /\ data[k] # None
                THEN data[k]
                ELSE vevent.props[k]]]

----------------------------------------------------------------------------
(* Document adapter, outbound *)

\* CalendarEvent.autoname
autoname(calendar, uuid) == Join2(calendar, uuid)

\* CalendarEvent.db_insert: the event_data handed to add_event.  Only the
\* frappe_calendar adapter passes the attendees.
db_insert_data(d, utc_clock, adapter) ==
    LET base == [k \in {"dtstamp", "dtstart", "summary", "description", "location"} |->
                    CASE k = "dtstamp"     -> Some(convert_to_utc(now(utc_clock), None, TRUE))
                      [] k = "dtstart"     -> Some(convert_to_utc(d.dtstart, None, TRUE))
                      [] k = "summary"     -> d.summary
                      [] k = "description" -> d.description
                      [] k = "location"    -> d.location]
    IN  [fields    |-> IF d.dtend # None
                       THEN DictSet(base, "dtend",
                                    Some(convert_to_utc(d.dtend[1], None, TRUE)))
                       ELSE base,
         attendees |-> IF adapter = "frappe_calendar"
                       THEN Some([i \in DOMAIN d.attendees |->
                                    [email |-> d.attendees[i].email,
                                     cn    |-> d.attendees[i].cn,
                                     role  |-> d.attendees[i].role]])
                       ELSE None]

\* CalendarEvent.db_update: the updated_data handed to update_event.
db_update_data(d, utc_clock) ==
    LET base == [k \in {"dtstamp", "dtstart", "summary", "description", "location"} |->
                    CASE k = "dtstamp"     -> Some(convert_to_utc(now(utc_clock), None, TRUE))
                      [] k = "dtstart"     -> Some(convert_to_utc(d.dtstart, None, TRUE))
                      [] k = "summary"     -> d.summary
                      [] k = "description" -> d.description
                      [] k = "location"    -> d.location]
    IN  IF d.dtend # None
        THEN DictSet(base, "dtend", Some(convert_to_utc(d.dtend[1], None, TRUE)))
        ELSE base

\* The adapter's format_event.
Translate(user, event) ==
    IF profile = "frappe_calendar"
    THEN format_event(user, event)
    ELSE format_event_schedule(user, event)

----------------------------------------------------------------------------
(* Document adapter: the module-level functions that take a name *)

\* get_caldav_client(user): frappe.get_doc("Mail Account", user) raises for
\* a user without an account, before any request is sent.
HasAccount(user) == user = User

\* calendar.events(): the resources of a collection, in the server's order.
KeyOrder == [i \in 1..(MaxUuid + 1) |-> IF i <= MaxUuid THEN UuidOf(i) ELSE OwnUid]

CalendarEvents(calendar) ==
    LET keys == SelectSeq(KeyOrder, LAMBDA k : events[calendar][k] # None)
    IN  [i \in DOMAIN keys |-> EventAt(calendar, keys[i], events[calendar][keys[i]][1])]

\* CalDAVClient.get_events(calendar): only NotFoundError is caught; outcome is
\* what calendar.events() does ("" for a normal answer, else the exception).
get_events(calendar, outcome) ==
    IF outcome = ""
    THEN [err |-> "", events |-> CalendarEvents(calendar)]
    ELSE IF outcome = "NotFoundError"
         THEN [err |-> "", events |-> <<>>]
         ELSE [err |-> outcome, events |-> <<>>]

\* The values the unpacking of an event name binds, none when it raises.
ParsedEvent(name) ==
    LET u == UnpackEvent(name)
    IN  IF u.ok THEN <<u.user, u.cal, u.uid>> ELSE <<>>

\* The values the unpacking of a calendar name binds, none when it raises.
ParsedCalendar(name) ==
    LET u == UnpackCalendar(name)
    IN  IF u.ok THEN <<u.user, u.cal>> ELSE <<>>

\* add_event(name, event_data)
add_event(name, event_data) ==
    LET u    == UnpackEvent(name)
        data == [event_data EXCEPT !.fields = DictSet(@, "uid", Some(u.uid))]
        c    == get_calendar(u.cal, TRUE)
        fail(e, n) == [err |-> e, calls |-> n, cal |-> <<>>, key |-> <<>>,
                       vevent |-> NewVEvent]
    IN  IF ~u.ok THEN fail("ValueError", 0)
        ELSE IF ~HasAccount(u.user) THEN fail("DoesNotExistError", 0)
        ELSE IF c.err # "" THEN fail(c.err, 1)
        ELSE [err |-> "", calls |-> 2, cal |-> c.calendar[1], key |-> u.uid,
              vevent |-> BuildVEvent(data)]

\* get_event(name) of the adapter: resolve the calendar, then the event, then
\* translate it.
doc_get_event(name) ==
    LET u == UnpackEvent(name)
        c == get_calendar(u.cal, TRUE)
        e == get_event(c.calendar[1], u.uid, TRUE)
        fail(x, n) == [err |-> x, calls |-> n, result |-> NoDoc]
    IN  IF ~u.ok THEN fail("ValueError", 0)
        ELSE IF ~HasAccount(u.user) THEN fail("DoesNotExistError", 0)
        ELSE IF c.err # "" THEN fail(c.err, 1)
        ELSE IF e.err # "" THEN fail(e.err, 2)
        ELSE LET r == Translate(u.user, e.event)
             IN  IF r.err # "" THEN fail(r.err, 2)
                 ELSE [err |-> "", calls |-> 2, result |-> r]

\* update_event(name, updated_data) up to the resolution inside the gateway.
doc_update_resolve(name) ==
    LET u == UnpackEvent(name)
        c == get_calendar(u.cal, TRUE)
        r == ResolveEvent(NoEvent, c.calendar, Some(u.uid))
        fail(x, n) == [err |-> x, calls |-> n, lookups |-> 0, event |-> NoEvent]
    IN  IF ~u.ok THEN fail("ValueError", 0)
        ELSE IF ~HasAccount(u.user) THEN fail("DoesNotExistError", 0)
        ELSE IF c.err # "" THEN fail(c.err, 1)
        ELSE [err |-> r.err, calls |-> 1 + r.lookups, lookups |-> r.lookups,
              event |-> r.event]

RECURSIVE FetchFrom(_, _, _)
\* The loop of fetch_events over the calendars still to visit: an exception
\* of get_events or of format_event ends the listing.
FetchFrom(user, calendars, outcome) ==
    IF calendars = <<>>
    THEN [err |-> "", result |-> <<>>]
    ELSE LET ge   == get_events(Head(calendars), outcome[Head(calendars)])
             recs == [i \in DOMAIN ge.events |-> Translate(user, ge.events[i])]
             rest == FetchFrom(user, Tail(calendars), outcome)
         IN  IF ge.err # "" THEN [err |-> ge.err, result |-> <<>>]
             ELSE IF \E i \in DOMAIN recs : recs[i].err # ""
                  THEN [err |-> "AttributeError", result |-> <<>>]
             ELSE IF rest.err # "" THEN rest
             ELSE [err |-> "", result |-> recs \o rest.result]

\* fetch_events(user)
fetch_events(user, outcome) == FetchFrom(user, get_calendars, outcome)

\* format_calendar(user, calendar)
format_calendar(user, calendar) ==
    [user |-> user, _name |-> cals[calendar][1], name |-> Join2(user, calendar),
     url |-> calendar]

----------------------------------------------------------------------------
(* Inputs *)

Dt(t) == [t |-> t, off |-> None]

\* Documents a user saves: no optional field; every field, with a zone other
\* than the system's; optional fields given as empty strings.
RecPlain ==
    [dtstart |-> [wall |-> 600, tz |-> None], dtend |-> None, summary |-> None,
     description |-> None, location |-> None, attendees |-> <<>>]

RecFull ==
    [dtstart |-> [wall |-> 600, tz |-> Some(60)],
     dtend |-> Some([wall |-> 660, tz |-> Some(60)]),
     summary |-> Some("Standup"), description |-> Some("Daily"),
     location |-> Some("Room 1"),
     attendees |-> <<[email |-> <<"bob@x">>, cn |-> Some("Bob"), role |-> None]>>]

RecEmpty ==
    [dtstart |-> [wall |-> 600, tz |-> Some(330)], dtend |-> None,
     summary |-> Some(""), description |-> None, location |-> Some(""),
     attendees |-> <<>>]

SampleRecords == {RecPlain, RecFull, RecEmpty}

\* The calendar field of a new document: a calendar of the user, one that does
\* not exist, and values that make the name malformed.
CalendarFields ==
    {Join2(User, CalA), Join2(User, CalB), Join2(User, <<"z">>), CalA,
     Join3(User, CalA, <<"x">>)}

\* Names handed to the adapter's functions.
EventNames ==
    {Join3(User, c, k) : c \in CalIds, k \in EventKeys}
        \cup {Join3(User, <<"z">>, UuidOf(1)), Join2(User, CalA),
              Join2(Join3(User, CalA, UuidOf(1)), <<"x">>),
              Join3(User, CalA, <<>>)}

CalendarNames ==
    {Join2(User, c) : c \in CalIds}
        \cup {Join2(User, <<"z">>), User, Join3(User, CalA, UuidOf(1))}

\* A VEVENT another caller of the gateway adds under a UID of its own, with
\* created and last-modified stamps, a status and an organizer.
OwnEventData ==
    [fields |->
        [k \in {"uid", "dtstamp", "dtstart", "summary", "status", "organizer",
                "created", "last_modified"} |->
            CASE k = "uid"           -> Some(OwnUid)
              [] k = "dtstamp"       -> Some(Dt(0))
              [] k = "dtstart"       -> Some(Dt(480))
              [] k = "summary"       -> Some("Imported")
              [] k = "status"        -> Some("TENTATIVE")
              [] k = "organizer"     -> Some(<<"mailto:", "boss@x">>)
              [] k = "created"       -> Some(Dt(0))
              [] k = "last_modified" -> Some(Dt(0))],
     attendees |-> None]

\* A VEVENT of another client that carries no DTSTAMP.
NoStampEventData ==
    [fields |->
        [k \in {"uid", "dtstart", "summary"} |->
            CASE k = "uid"     -> Some(OwnUid)
              [] k = "dtstart" -> Some(Dt(540))
              [] k = "summary" -> Some("Bare")],
     attendees |-> None]

\* VEVENTs other clients stored, as the server hands them back: with or
\* without a status, with each shape of the ROLE and RSVP parameters, with and
\* without the stamps.
InboundStatus == {None, Some(""), Some("TENTATIVE")}

RoleParams == {NoParam, StrParam("CHAIR"), ListParam(<<"CHAIR">>), ListParam(<<>>)}

RsvpParams == {NoParam, StrParam("FALSE"), ListParam(<<"FALSE">>), ListParam(<<"TRUE">>)}

InboundAttendee(role, rsvp) ==
    [value  |-> Mailto(<<"amy@x">>),
     params |-> [NoParams EXCEPT !["ROLE"] = role, !["RSVP"] = rsvp]]

InboundAttendeeLists ==
    {<<>>, <<InboundAttendee(NoParam, StrParam("FALSE")),
             InboundAttendee(ListParam(<<"CHAIR">>), NoParam)>>}
        \cup {<<InboundAttendee(r, v)>> : r \in RoleParams, v \in RsvpParams}

InboundVEvents ==
    {[props |-> [k \in PropNames |->
                   CASE k = "uid"           -> Some(OwnUid)
                     [] k = "dtstart"       -> Some(Dt(480))
                     [] k = "dtstamp"       -> IF stamped THEN Some(Dt(0)) ELSE None
                     [] k = "created"       -> IF dated THEN Some(Dt(30)) ELSE None
                     [] k = "last_modified" -> IF dated THEN Some(Dt(60)) ELSE None
                     [] k = "status"        -> st
                     [] OTHER               -> None],
      attendee_list |-> al] :
        st \in InboundStatus, al \in InboundAttendeeLists,
        stamped \in BOOLEAN, dated \in BOOLEAN}

\* Wall times (minutes) and whole-minute zone offsets handed to the
\* normaliser; 330 is the system zone, 0 is UTC.
Times == {360 * i : i \in 0..MaxTime}

Offsets == {-480, -1, 0, 60, 330, 345}

\* The arguments of convert_to_utc: a rendering with or without a zone, a
\* source timezone or none, and the naive flag.
ZoneInputs ==
    [text : [wall : Times, tz : {None} \cup {Some(o) : o \in Offsets}],
     from_timezone : {None} \cup {Some(o) : o \in Offsets},
     naive : BOOLEAN]

\* What a user changes on a loaded document before saving it.
DocChanges ==
    {[k \in {"summary"} |-> Some("Review")],
     [k \in {"location"} |-> Some("Room 2")]}

\* updated_data a caller hands to the gateway's update_event.
FieldsSummary == [k \in {"summary"} |-> Some("Retro")]

FieldsMixed ==
    [k \in {"uid", "dtstamp", "location", "description"} |->
        CASE k = "uid"         -> Some(<<"h">>)
          [] k = "dtstamp"     -> Some(Dt(999))
          [] k = "location"    -> Some("Room 3")
          [] k = "description" -> None]

UpdateFields == {FieldsSummary, FieldsMixed}

\* The (event, calendar, event_uid) arguments a caller can pass: a resource
\* it resolved, a pair, both, or an incomplete reference.
EventRefs ==
    {[event |-> event_by_uid(c, k), calendar |-> None, event_uid |-> None] :
        c \in CalIds, k \in EventKeys}
    \cup {[event |-> NoEvent, calendar |-> Some(c), event_uid |-> Some(k)] :
            c \in {x \in CalIds : cals[x] # None}, k \in EventKeys}
    \cup {[event |-> event_by_uid(c, OwnUid), calendar |-> Some(c),
           event_uid |-> Some(OwnUid)] : c \in CalIds}
    \cup {[event |-> NoEvent, calendar |-> Some(CalA), event_uid |-> None],
          [event |-> NoEvent, calendar |-> None, event_uid |-> Some(OwnUid)],
          [event |-> NoEvent, calendar |-> Some(CalA), event_uid |-> Some(<<>>)]}

CalendarRefs ==
    {[calendar |-> Some(c), cal_id |-> None] : c \in {x \in CalIds : cals[x] # None}}
    \cup {[calendar |-> None, cal_id |-> Some(c)] : c \in CalIds}
    \cup {[calendar |-> None, cal_id |-> None],
          [calendar |-> None, cal_id |-> Some(<<>>)]}

\* What calendar.events() does for each collection during one listing.
EnumerationOutcomes == [CalIds -> {"", "NotFoundError", "DAVError"}]

----------------------------------------------------------------------------
(* The state machine *)

Init ==
    /\ profile \in {"frappe_calendar", "schedule"}
    /\ cals = [c \in CalIds |-> Some("Work")]
    /\ events = [c \in CalIds |-> [k \in EventKeys |-> None]]
    /\ clock = 0
    /\ uuidCount = 0
    /\ doc = [p \in Procs |-> NoDoc]
    /\ pc = [p \in Procs |-> "idle"]
    /\ held = [p \in Procs |-> NoHeld]
    /\ last = [op |-> "init"]

\* A call that stamps the time needs a tick of the clock that no update in
\* flight has reserved.
TickFree == clock + Cardinality({q \in Procs : pc[q] = "save"}) < MaxClock

\* Document.insert: autoname, then db_insert, which calls add_event.
Create(calendar, d) ==
    /\ uuidCount < MaxUuid
    /\ TickFree
    /\ LET name == autoname(calendar, UuidOf(uuidCount + 1))
           r    == add_event(name, db_insert_data(d, clock + 1, profile))
       IN  /\ events' = IF r.err = ""
                        THEN [events EXCEPT ![r.cal][r.key] = Some(r.vevent)]
                        ELSE events
           /\ last' = [op |-> "add_event", name |-> name, input |-> d,
                       parsed |-> ParsedEvent(name),
                       err |-> r.err, calls |-> r.calls]
    /\ uuidCount' = uuidCount + 1
    /\ clock' = clock + 1
    /\ UNCHANGED <<profile, cals, doc, pc, held>>

\* CalDAVClient.add_event(calendar, event_data) called with a calendar the
\* caller resolved and a VEVENT of its own.
ClientAddEvent(calendar, event_data) ==
    /\ cals[calendar] # None
    /\ events' = [events EXCEPT ![calendar][event_data.fields["uid"][1]] =
                      Some(BuildVEvent(event_data))]
    /\ last' = [op |-> "client.add_event", calendar |-> calendar, err |-> "",
                result |-> event_data.fields["uid"][1]]
    /\ UNCHANGED <<profile, cals, clock, uuidCount, doc, pc, held>>

\* CalendarEvent.load_from_db: get_event(self.name) fills the document.
Load(p, name) ==
    /\ pc[p] = "idle"
    /\ LET r == doc_get_event(name)
       IN  /\ doc' = IF r.err = "" THEN [doc EXCEPT ![p] = r.result] ELSE doc
           /\ last' = [op |-> "get_event", by |-> p, name |-> name,
                       parsed |-> ParsedEvent(name),
                       err |-> r.err, calls |-> r.calls, result |-> r.result]
    /\ UNCHANGED <<profile, cals, events, clock, uuidCount, pc, held>>

\* The document with the user's changes applied.
Changed(d, changes) ==
    [d EXCEPT !.summary  = IF "summary" \in DOMAIN changes
                           THEN changes["summary"] ELSE @,
              !.location = IF "location" \in DOMAIN changes
                           THEN changes["location"] ELSE @]

\* update_event(name, updated_data) of the adapter, up to the resolution
\* inside the gateway.  A failure ends the call here.
update_event_begin(p, name, data, before, changes) ==
    LET r == doc_update_resolve(name)
    IN  IF r.err = ""
        THEN /\ pc' = [pc EXCEPT ![p] = "save"]
             /\ held' = [held EXCEPT ![p] =
                    [present |-> TRUE, via |-> "update_event", name |-> name,
                     ref |-> [event |-> NoEvent,
                              calendar |-> Some(r.event.parent),
                              event_uid |-> Some(UnpackEvent(name).uid)],
                     event |-> r.event, fields |-> data,
                     lookups |-> r.lookups, before |-> before,
                     changes |-> changes]]
             /\ UNCHANGED last
        ELSE /\ last' = [op |-> "update_event", by |-> p, name |-> name,
                         parsed |-> ParsedEvent(name),
                         err |-> r.err, calls |-> r.calls]
             /\ UNCHANGED <<pc, held>>

\* Document.save on a loaded document: db_update builds updated_data and
\* calls update_event(self.name, updated_data).
DocUpdateBegin(p, changes) ==
    /\ pc[p] = "idle"
    /\ doc[p] # NoDoc
    /\ TickFree
    /\ LET d == Changed(doc[p], changes)
       IN  /\ doc' = [doc EXCEPT ![p] = d]
           /\ update_event_begin(p, d.name, db_update_data(d, clock), doc[p], changes)
    /\ UNCHANGED <<profile, cals, events, clock, uuidCount>>

\* update_event(name, updated_data) called with a name of the caller's.
UpdateEventBegin(p, name, data) ==
    /\ pc[p] = "idle"
    /\ TickFree
    /\ update_event_begin(p, name, data, NoDoc, EmptyDict)
    /\ UNCHANGED <<profile, cals, events, clock, uuidCount, doc>>

\* CalDAVClient.update_event(updated_data, event, calendar, event_uid) up to
\* the resolution.
ClientUpdateBegin(p, fields, ref) ==
    /\ pc[p] = "idle"
    /\ TickFree
    /\ LET r == ResolveEvent(ref.event, ref.calendar, ref.event_uid)
       IN  IF r.err = ""
           THEN /\ pc' = [pc EXCEPT ![p] = "save"]
                /\ held' = [held EXCEPT ![p] =
                       [present |-> TRUE, via |-> "client.update_event",
                        name |-> <<>>, ref |-> ref, event |-> r.event, fields |-> fields,
                        lookups |-> r.lookups, before |-> NoDoc,
                        changes |-> EmptyDict]]
                /\ UNCHANGED last
           ELSE /\ last' = [op |-> "client.update_event", by |-> p, ref |-> ref,
                            err |-> r.err, lookups |-> r.lookups, saves |-> 0]
                /\ UNCHANGED <<pc, held>>
    /\ UNCHANGED <<profile, cals, events, clock, uuidCount, doc>>

\* A save that sends If-Match with the state it fetched: the server refuses
\* it when the resource changed in between.
SaveEvent_IfMatch(event, vevent) ==
    IF cals[event.parent] = None
    THEN [err |-> "PutError", events |-> events]
    ELSE IF events[event.parent][event.key] # Some(event.vevent)
         THEN [err |-> "PreconditionFailed", events |-> events]
         ELSE [err |-> "", events |-> [events EXCEPT ![event.parent][event.key] = Some(vevent)]]

\* event.save(): the PUT of the merged VEVENT at the resource's URL.  No ETag
\* or If-Match is sent; the server refuses only a collection that is gone.
SaveEvent(event, vevent) ==
    IF cals[event.parent] # None
    THEN [err |-> "", events |-> [events EXCEPT ![event.parent][event.key] = Some(vevent)]]
    ELSE [err |-> "PutError", events |-> events]

\* The rest of update_event: strip uid, stamp dtstamp, merge, save.
UpdateSave(p) ==
    /\ pc[p] = "save"
    /\ LET h      == held[p]
           utc    == convert_to_utc(now(clock + 1), None, TRUE)
           merged == MergeUpdate(h.event.vevent, h.fields, utc)
           w      == SaveEvent(h.event, merged)
       IN  /\ events' = w.events
           /\ last' = [op |-> h.via, by |-> p, err |-> w.err,
                       name |-> h.name, parsed |-> ParsedEvent(h.name),
                       written |-> merged, ref |-> h.ref, event |-> h.event, fields |-> h.fields, utc |-> utc,
                       lookups |-> h.lookups, saves |-> 1,
                       before |-> h.before, changes |-> h.changes,
                       stale |-> events[h.event.parent][h.event.key]
                                     # Some(h.event.vevent)]
    /\ clock' = clock + 1
    /\ pc' = [pc EXCEPT ![p] = "idle"]
    /\ held' = [held EXCEPT ![p] = NoHeld]
    /\ UNCHANGED <<profile, cals, uuidCount, doc>>

\* event.delete()
DeleteResource(event) ==
    IF cals[event.parent] # None
    THEN [events EXCEPT ![event.parent][event.key] = None]
    ELSE events

\* CalendarEvent.delete: delete_event(self.name).
DocDelete(name) ==
    /\ LET r == doc_update_resolve(name)
       IN  /\ events' = IF r.err = "" THEN DeleteResource(r.event) ELSE events
           /\ last' = [op |-> "delete_event", name |-> name, err |-> r.err,
                       parsed |-> ParsedEvent(name),
                       calls |-> r.calls + (IF r.err = "" THEN 1 ELSE 0)]
    /\ UNCHANGED <<profile, cals, clock, uuidCount, doc, pc, held>>

\* CalDAVClient.delete_event(event, calendar, event_uid)
ClientDeleteEvent(ref) ==
    /\ LET r == ResolveEvent(ref.event, ref.calendar, ref.event_uid)
       IN  /\ events' = IF r.err = "" THEN DeleteResource(r.event) ELSE events
           /\ last' = [op |-> "client.delete_event", ref |-> ref, err |-> r.err,
                       lookups |-> r.lookups,
                       deletes |-> IF r.err = "" THEN 1 ELSE 0]
    /\ UNCHANGED <<profile, cals, clock, uuidCount, doc, pc, held>>

\* calendar.delete(): the collection goes with everything in it.
DeleteCollection(calendar) ==
    [cals   |-> [cals EXCEPT ![calendar] = None],
     events |-> [events EXCEPT ![calendar] = [k \in EventKeys |-> None]]]

\* CalDAVClient.delete_calendar(calendar, cal_id)
ClientDeleteCalendar(ref) ==
    /\ LET r == ResolveCalendar(ref.calendar, ref.cal_id)
           w == DeleteCollection(r.calendar[1])
       IN  /\ cals' = IF r.err = "" THEN w.cals ELSE cals
           /\ events' = IF r.err = "" THEN w.events ELSE events
           /\ last' = [op |-> "client.delete_calendar", ref |-> ref,
                       err |-> r.err, lookups |-> r.lookups,
                       deletes |-> IF r.err = "" THEN 1 ELSE 0]
    /\ UNCHANGED <<profile, clock, uuidCount, doc, pc, held>>

\* Calendar.delete: delete_calendar(self.name).
DocDeleteCalendar(name) ==
    /\ LET u == UnpackCalendar(name)
           r == ResolveCalendar(None, Some(u.cal))
           e == IF ~u.ok THEN "ValueError"
                ELSE IF ~HasAccount(u.user) THEN "DoesNotExistError"
                ELSE r.err
           w == DeleteCollection(r.calendar[1])
       IN  /\ cals' = IF e = "" THEN w.cals ELSE cals
           /\ events' = IF e = "" THEN w.events ELSE events
           /\ last' = [op |-> "delete_calendar", name |-> name, err |-> e,
                       parsed |-> ParsedCalendar(name),
                       calls |-> IF e \in {"ValueError", "DoesNotExistError"} THEN 0
                                 ELSE r.lookups + (IF e = "" THEN 1 ELSE 0)]
    /\ UNCHANGED <<profile, clock, uuidCount, doc, pc, held>>

\* Calendar.db_insert: add_calendar(self.name, self._name); the server
\* refuses to make a collection that exists.
DocAddCalendar(name, cal_name) ==
    /\ LET u == UnpackCalendar(name)
           e == IF ~u.ok THEN "ValueError"
                ELSE IF ~HasAccount(u.user) THEN "DoesNotExistError"
                ELSE IF u.cal \notin CalIds \/ cals[u.cal] # None THEN "DAVError"
                ELSE ""
       IN  /\ cals' = IF e = "" THEN [cals EXCEPT ![u.cal] = Some(cal_name)] ELSE cals
           /\ last' = [op |-> "add_calendar", name |-> name, err |-> e,
                       parsed |-> ParsedCalendar(name),
                       calls |-> IF e \in {"ValueError", "DoesNotExistError"} THEN 0 ELSE 1]
    /\ UNCHANGED <<profile, events, clock, uuidCount, doc, pc, held>>

\* Calendar.load_from_db: get_calendar(self.name).
DocGetCalendar(name) ==
    /\ LET u == UnpackCalendar(name)
           c == get_calendar(u.cal, TRUE)
           e == IF ~u.ok THEN "ValueError"
                ELSE IF ~HasAccount(u.user) THEN "DoesNotExistError"
                ELSE c.err
       IN  last' = [op |-> "get_calendar", name |-> name, err |-> e,
                    parsed |-> ParsedCalendar(name),
                    calls |-> IF e \in {"ValueError", "DoesNotExistError"} THEN 0 ELSE 1,
                    result |-> IF e = "" THEN Some(format_calendar(u.user, c.calendar[1]))
                               ELSE None]
    /\ UNCHANGED <<profile, cals, events, clock, uuidCount, doc, pc, held>>

\* CalDAVClient.get_calendar called on its own.
ClientGetCalendar(cal_id, required) ==
    /\ LET r == get_calendar(cal_id, required)
       IN  last' = [op |-> "client.get_calendar", id |-> cal_id,
                    required |-> required, err |-> r.err, found |-> r.calendar]
    /\ UNCHANGED <<profile, cals, events, clock, uuidCount, doc, pc, held>>

\* CalDAVClient.get_event called on its own.
ClientGetEvent(calendar, event_uid, required) ==
    /\ cals[calendar] # None
    /\ LET r == get_event(calendar, event_uid, required)
       IN  last' = [op |-> "client.get_event", calendar |-> calendar,
                    id |-> event_uid, required |-> required, err |-> r.err,
                    found |-> r.event]
    /\ UNCHANGED <<profile, cals, events, clock, uuidCount, doc, pc, held>>

\* CalendarEvent.get_list for a user with an account: fetch_events(user).
List(outcome) ==
    /\ LET r == fetch_events(User, outcome)
       IN  last' = [op |-> "fetch_events", outcome |-> outcome, err |-> r.err,
                    result |-> r.result]
    /\ UNCHANGED <<profile, cals, events, clock, uuidCount, doc, pc, held>>

(***************************************************************************)
(* Specifications.  Each one runs the operations a group of properties is  *)
(* about, over the remote state the writing operations build.              *)
(***************************************************************************)

\* The references by (calendar, event_uid) pair into calendar a.
PairRefsA ==
    {r \in EventRefs : ~r.event.present /\ r.calendar = Some(CalA) /\ r.event_uid # None}

\* The names of the events calendar a and calendar b can hold.
StoredNames == {Join3(User, c, k) : c \in CalIds, k \in EventKeys}

\* The document adapter used by one process (insert, load, save, delete) next
\* to a caller of the gateway that adds and updates an event of its own.
Next ==
    \/ \E c \in CalIds : Create(Join2(User, c), RecFull)
    \/ ClientAddEvent(CalA, OwnEventData)
    \/ \E n \in StoredNames : Load(1, n)
    \/ \E ch \in DocChanges : DocUpdateBegin(1, ch)
    \/ \E r \in PairRefsA : ClientUpdateBegin(1, FieldsMixed, r)
    \/ UpdateSave(1)
    \/ \E k \in EventKeys : DocDelete(Join3(User, CalA, k))

Spec == Init /\ [][Next]_vars

\* Insert and read back: every sample record into either calendar, then a
\* load under any name.
NextRoundTrip ==
    \/ \E c \in CalIds, d \in SampleRecords : Create(Join2(User, c), d)
    \/ \E n \in StoredNames : Load(1, n)
    \/ \E k \in EventKeys : DocDelete(Join3(User, CalA, k))

SpecRoundTrip == Init /\ [][NextRoundTrip]_vars

\* Listing: events of the adapter and of other clients in both calendars, a
\* calendar that goes away, and a listing under every enumeration outcome.
NextList ==
    \/ \E c \in CalIds : Create(Join2(User, c), RecFull)
    \/ ClientAddEvent(CalA, OwnEventData)
    \/ ClientAddEvent(CalB, NoStampEventData)
    \/ \E c \in CalIds : DocDeleteCalendar(Join2(User, c))
    \/ \E o \in EnumerationOutcomes : List(o)

SpecList == Init /\ [][NextList]_vars

\* The identifiers handed to the gateway's lookups.
LookupCalIds == CalIds \cup {<<"z">>}
LookupUids == EventKeys \cup {<<"nonexistent">>}

\* Lookups of the gateway over calendars that hold events and go away.
NextLookup ==
    \/ \E c \in CalIds : Create(Join2(User, c), RecPlain)
    \/ ClientAddEvent(CalA, OwnEventData)
    \/ \E r \in CalendarRefs : ClientDeleteCalendar(r)
    \/ \E c \in LookupCalIds, b \in BOOLEAN : ClientGetCalendar(c, b)
    \/ \E c \in CalIds, u \in LookupUids, b \in BOOLEAN : ClientGetEvent(c, u, b)

SpecLookup == Init /\ [][NextLookup]_vars

\* The resolve-then-act operations of the gateway under every form of
\* reference.
NextResolve ==
    \/ Create(Join2(User, CalB), RecPlain)
    \/ ClientAddEvent(CalA, OwnEventData)
    \/ \E r \in EventRefs : ClientUpdateBegin(1, FieldsSummary, r)
    \/ UpdateSave(1)
    \/ \E r \in EventRefs : ClientDeleteEvent(r)
    \/ \E r \in CalendarRefs : ClientDeleteCalendar(r)

SpecResolve == Init /\ [][NextResolve]_vars

\* The name of the event both processes work on.
SharedName == Join3(User, CalA, OwnUid)

\* The references to that event by (calendar, event_uid) pair.
SharedRefs == {r \in PairRefsA : r.event_uid = Some(OwnUid)}

\* Two processes that update the same event, through the adapter and through
\* the gateway, in every interleaving of their resolutions and saves.
NextConcurrent ==
    \/ ClientAddEvent(CalA, OwnEventData)
    \/ \E p \in Procs : Load(p, SharedName)
    \/ \E p \in Procs, ch \in DocChanges : DocUpdateBegin(p, ch)
    \/ \E p \in Procs, f \in UpdateFields, r \in SharedRefs : ClientUpdateBegin(p, f, r)
    \/ \E p \in Procs : UpdateSave(p)

SpecConcurrent == Init /\ [][NextConcurrent]_vars

\* The adapter deployed with the attendee fields.
InitNames == Init /\ profile = "frappe_calendar"

\* A calendar that holds one VEVENT another client stored.
InitInbound ==
    /\ profile = "frappe_calendar"
    /\ cals = [c \in CalIds |-> Some("Work")]
    /\ \E v \in InboundVEvents :
          events = [c \in CalIds |-> [k \in EventKeys |->
                       IF c = CalA /\ k = OwnUid THEN Some(v) ELSE None]]
    /\ clock = 0
    /\ uuidCount = 0
    /\ doc = [p \in Procs |-> NoDoc]
    /\ pc = [p \in Procs |-> "idle"]
    /\ held = [p \in Procs |-> NoHeld]
    /\ last = [op |-> "init"]

\* Reading what other clients stored.
NextInbound ==
    \/ \E n \in StoredNames : Load(1, n)
    \/ List([c \in CalIds |-> ""])

SpecInbound == InitInbound /\ [][NextInbound]_vars

\* The adapter's functions called with well-formed and malformed names.
NextNames ==
    \/ \E c \in CalendarFields : Create(c, RecPlain)
    \/ \E n \in EventNames : Load(1, n)
    \/ \E n \in EventNames : UpdateEventBegin(1, n, FieldsSummary)
    \/ UpdateSave(1)
    \/ \E n \in EventNames : DocDelete(n)
    \/ \E n \in CalendarNames : DocAddCalendar(n, "Home")
    \/ \E n \in CalendarNames : DocGetCalendar(n)
    \/ \E n \in CalendarNames : DocDeleteCalendar(n)

SpecNames == InitNames /\ [][NextNames]_vars

\* A datetime about to be normalised.
InitZone ==
    /\ profile = "frappe_calendar"
    /\ cals = [c \in CalIds |-> Some("Work")]
    /\ events = [c \in CalIds |-> [k \in EventKeys |-> None]]
    /\ clock = 0
    /\ uuidCount = 0
    /\ doc = [p \in Procs |-> NoDoc]
    /\ pc = [p \in Procs |-> "idle"]
    /\ held = [p \in Procs |-> NoHeld]
    /\ \E i \in ZoneInputs : last = [op |-> "input", arg |-> i]

\* convert_to_utc on the way out (db_insert, db_update), then to_local_str on
\* the way back (format_event).
ConvertAndShow ==
    /\ last.op = "input"
    /\ LET utc == convert_to_utc(last.arg.text, last.arg.from_timezone, last.arg.naive)
       IN  last' = [op |-> "convert_to_utc", arg |-> last.arg, utc |-> utc,
                    shown |-> to_local_str(utc)]
    /\ UNCHANGED <<profile, cals, events, clock, uuidCount, doc, pc, held>>

NextZone == ConvertAndShow

SpecZone == InitZone /\ [][NextZone]_vars

----------------------------------------------------------------------------
(* Properties of the document adapter *)

\* The part of a name after its last delimiter.
AfterLastDelim(name) ==
    LET i == CHOOSE k \in DOMAIN name :
                 name[k] = Delim /\ \A j \in (k + 1)..Len(name) : name[j] # Delim
    IN  SubSeq(name, i + 1, Len(name))

\* C1: the record read under an identity carries that identity as its name,
\* its name is calendar|uid, and its uid is the third component chosen when
\* the event was created; an insert stores the event under that component;
\* and no stored event's UID ever differs from the resource name it was
\* created under, whatever updates were applied.
C1_IdentityStable ==
    /\ \A c \in CalIds, k \in EventKeys :
          events[c][k] # None => events[c][k][1].props["uid"] = Some(k)
    /\ (last.op = "add_event" /\ last.err = "") =>
          \E c \in CalIds :
              /\ events[c][AfterLastDelim(last.name)] # None
              /\ last.name = Join3(User, c, AfterLastDelim(last.name))
    /\ (last.op = "get_event" /\ last.err = "") =>
          /\ last.result.name = last.name
          /\ last.result.name = last.result.calendar \o <<Delim>> \o last.result.uid
          /\ last.result.uid = AfterLastDelim(last.name)

\* C1 witness: an event made by insert is read back after an update of it.
C1_Witness ==
    /\ last.op = "get_event"
    /\ last.err = ""
    /\ last.result.uid = UuidOf(1)
    /\ last.result.summary = Some("Review")

\* C3 as stated: after a save that changed only summary, the re-read shows the
\* dtstart and uid read before, the new summary, and a modified stamp
\* strictly later than the one read before.
C3_SummaryOnlyUpdate ==
    [][(/\ last.op = "update_event"
        /\ last.err = ""
        /\ DOMAIN last.changes = {"summary"}
        /\ last'.op = "get_event"
        /\ last'.err = ""
        /\ last'.name = last.before.name)
       => /\ last'.result.dtstart = last.before.dtstart
          /\ last'.result.uid = last.before.uid
          /\ last'.result.summary = last.changes["summary"]
          /\ InstantOf(last'.result.modified) > InstantOf(last.before.modified)]_vars

\* The attendee emails of a record that was read, none when it has no
\* attendees key.
EmailsRead(r) ==
    IF r.attendees = None
    THEN <<>>
    ELSE [i \in DOMAIN r.attendees[1] |-> r.attendees[1][i].email]

\* C7 as stated: the record read right after its insert has the summary,
\* description and location that were inserted, a dtstart denoting the same
\* instant, and the attendees' emails in order.
C7_RoundTrip ==
    [][(/\ last.op = "add_event"
        /\ last.err = ""
        /\ last'.op = "get_event"
        /\ last'.err = ""
        /\ last'.name = last.name)
       => /\ last'.result.summary = last.input.summary
          /\ last'.result.description = last.input.description
          /\ last'.result.location = last.input.location
          /\ InstantOf(last'.result.dtstart) = InstantOf(last.input.dtstart)
          /\ EmailsRead(last'.result) =
                [i \in DOMAIN last.input.attendees |-> last.input.attendees[i].email]]_vars

----------------------------------------------------------------------------
(* Properties of the listing *)

\* The records a listing takes from one calendar whose enumeration answers.
Listed(c, outcome) ==
    IF cals[c] = None \/ outcome[c] # ""
    THEN <<>>
    ELSE LET evs == CalendarEvents(c)
         IN  [i \in DOMAIN evs |-> Translate(User, evs[i])]

\* Some stored event of the calendar has no translation.
Untranslatable(c) ==
    \E k \in EventKeys :
        /\ events[c][k] # None
        /\ Translate(User, EventAt(c, k, events[c][k][1])).err # ""

\* C2 as stated: whenever the enumeration of exactly one of the user's
\* calendars raises, whatever the failure, the listing does not raise and
\* returns the translated events of the other calendars.
C2_AnyFailureSwallowed ==
    (/\ last.op = "fetch_events"
     /\ \A c \in CalIds : ~Untranslatable(c)
     /\ Cardinality({c \in CalIds : cals[c] # None /\ last.outcome[c] # ""}) = 1)
    => /\ last.err = ""
       /\ last.result = Listed(CalA, last.outcome) \o Listed(CalB, last.outcome)

----------------------------------------------------------------------------
(* Properties of the gateway *)

\* C4: a lookup by id returns the matching resource when there is one;
\* when there is none it raises CalendarNotFound / EventNotFound if the
\* caller required the resource and returns nothing without raising if not;
\* and the step of a lookup leaves calendars and events as they were.
C4_Lookups ==
    [][(last'.op \in {"client.get_calendar", "client.get_event"}) =>
          /\ cals' = cals
          /\ events' = events
          /\ last'.op = "client.get_calendar" =>
                IF last'.id \in CalIds /\ cals[last'.id] # None
                THEN last'.err = "" /\ last'.found = Some(last'.id)
                ELSE /\ last'.found = None
                     /\ last'.err = IF last'.required THEN "CalendarNotFound" ELSE ""
          /\ last'.op = "client.get_event" =>
                IF \E k \in EventKeys :
                      /\ events[last'.calendar][k] # None
                      /\ events[last'.calendar][k][1].props["uid"] = Some(last'.id)
                THEN /\ last'.err = ""
                     /\ last'.found.present
                     /\ last'.found.parent = last'.calendar
                     /\ last'.found.vevent.props["uid"] = Some(last'.id)
                     /\ events[last'.calendar][last'.found.key] = Some(last'.found.vevent)
                ELSE /\ ~last'.found.present
                     /\ last'.err = IF last'.required THEN "EventNotFound" ELSE ""]_vars

\* C4 witness: an event that is not there was looked up, not required, in a
\* calendar that holds another event, and the lookup returned nothing.
C4_Witness ==
    /\ last.op = "client.get_event"
    /\ last.id = <<"nonexistent">>
    /\ ~last.required
    /\ events[last.calendar][OwnUid] # None
    /\ last.err = ""
    /\ ~last.found.present

\* The calls that resolve and then act.
ResolveOps == {"client.update_event", "client.delete_event", "client.delete_calendar"}

\* C5: update_event, delete_event and delete_calendar look the target up
\* once when only a complete pair (an id, for a calendar) is given and never
\* when the resource is given; with neither they raise MissingReference
\* without a lookup, a save or a delete, and calendars and events stay as
\* they were.
C5_ResolveOnce ==
    [][(last' # last /\ last'.op \in ResolveOps) =>
          LET r        == last'.ref
              given    == IF last'.op = "client.delete_calendar"
                          THEN r.calendar # None
                          ELSE r.event.present
              complete == IF last'.op = "client.delete_calendar"
                          THEN r.cal_id # None /\ r.cal_id # Some(<<>>)
                          ELSE /\ r.calendar # None
                               /\ r.event_uid # None
                               /\ r.event_uid # Some(<<>>)
              acts     == IF last'.op = "client.update_event"
                          THEN last'.saves ELSE last'.deletes
          IN  /\ last'.lookups = IF given THEN 0 ELSE IF complete THEN 1 ELSE 0
              /\ (~given /\ ~complete) =>
                    /\ last'.err = "MissingReference"
                    /\ acts = 0
                    /\ cals' = cals
                    /\ events' = events
              /\ (given \/ complete) => last'.err # "MissingReference"
              /\ acts <= 1]_vars

\* C5 witness: a delete by pair resolved the event once and removed it.
C5_Witness ==
    /\ last.op = "client.delete_event"
    /\ ~last.ref.event.present
    /\ last.ref.event_uid = Some(OwnUid)
    /\ last.err = ""
    /\ last.lookups = 1
    /\ last.deletes = 1
    /\ events[CalA][OwnUid] = None

\* The update calls.
UpdateOps == {"update_event", "client.update_event"}

\* C6: after an update that saved, the stored VEVENT has the UID it had
\* when fetched, dtstamp is the time of the update in UTC, every other
\* payload entry with a non-null value is the stored property (overwritten
\* or added), and every property the payload does not name, or names with a
\* null value, and the attendees, are as fetched.
C6_UpdateFrame ==
    (last.op \in UpdateOps /\ last.err = "" /\ last.saves = 1) =>
        LET old    == last.event.vevent
            stored == events[last.event.parent][last.event.key]
            f      == last.fields
        IN  /\ stored # None
            /\ stored[1].props["uid"] = old.props["uid"]
            /\ stored[1].props["dtstamp"] = Some([t |-> clock, off |-> None])
            /\ \A k \in PropNames \ {"uid", "dtstamp"} :
                  stored[1].props[k] = IF k \in DOMAIN f /\ f[k] # None
                                       THEN f[k]
                                       ELSE old.props[k]
            /\ stored[1].attendee_list = old.attendee_list

\* C6 witness: a payload with a uid, a dtstamp, a new location and a null
\* description was saved on an event that had no location.
C6_Witness ==
    /\ last.op = "client.update_event"
    /\ last.err = ""
    /\ last.fields = FieldsMixed
    /\ last.event.vevent.props["location"] = None
    /\ events[CalA][OwnUid] # None
    /\ events[CalA][OwnUid][1].props["location"] = Some("Room 3")
    /\ events[CalA][OwnUid][1].props["uid"] = Some(OwnUid)

\* C8: an update that resolved its event is never refused at its save,
\* whatever the other process wrote in between; a resolution fails only
\* while the event is not stored; and the stored VEVENT is the one the
\* save that happened last wrote.
C8_LastWriterWins ==
    last.op \in UpdateOps =>
        /\ last.err # "" => (last.err = "EventNotFound" /\ events[CalA][OwnUid] = None)
        /\ last.err = "" =>
              /\ last.saves = 1
              /\ events[last.event.parent][last.event.key] = Some(last.written)

\* C8 witness: process 2 saved from a copy fetched before process 1's save;
\* it was not refused, and process 1's summary is gone from the stored VEVENT.
C8_Witness ==
    /\ last.op = "client.update_event"
    /\ last.by = 2
    /\ last.err = ""
    /\ last.stale
    /\ last.fields = FieldsMixed
    /\ pc = [p \in Procs |-> "idle"]
    /\ events[CalA][OwnUid][1].props["location"] = Some("Room 3")
    /\ events[CalA][OwnUid][1].props["summary"] = Some("Imported")

----------------------------------------------------------------------------
(* Properties of the inbound translation and of the names *)

\* C9: in the record format_event returns, status is CONFIRMED when the
\* VEVENT has no status or an empty one; there is one attendee per attendee
\* property (none gives the empty list); an attendee without ROLE has role
\* REQ-PARTICIPANT and one without RSVP has rsvp 1; RSVP FALSE, as a bare
\* string or as a one-element list, gives rsvp 0; and a ROLE that is given,
\* in either shape, is the role.
C9_InboundDefaults ==
    (last.op = "get_event" /\ last.err = "") =>
        LET v == events[CalA][OwnUid][1]
            r == last.result
        IN  /\ v.props["status"] \in {None, Some("")} => r.status = Some("CONFIRMED")
            /\ v.props["status"] = Some("TENTATIVE") => r.status = Some("TENTATIVE")
            /\ r.attendees # None
            /\ v.attendee_list = <<>> => r.attendees = Some(<<>>)
            /\ Len(r.attendees[1]) = Len(v.attendee_list)
            /\ \A i \in DOMAIN v.attendee_list :
                  LET role == v.attendee_list[i].params["ROLE"]
                      rsvp == v.attendee_list[i].params["RSVP"]
                      a    == r.attendees[1][i]
                  IN  /\ role = NoParam => a.role = Some("REQ-PARTICIPANT")
                      /\ role \in {StrParam("CHAIR"), ListParam(<<"CHAIR">>)} =>
                            a.role = Some("CHAIR")
                      /\ rsvp = NoParam => a.rsvp = 1
                      /\ rsvp \in {StrParam("FALSE"), ListParam(<<"FALSE">>)} =>
                            a.rsvp = 0
                      /\ rsvp = ListParam(<<"TRUE">>) => a.rsvp = 1

\* C9 witness: a VEVENT without status, with one attendee whose RSVP is the
\* list [FALSE] and one without RSVP, was translated.
C9_Witness ==
    /\ last.op = "get_event"
    /\ last.err = ""
    /\ events[CalA][OwnUid][1].props["status"] = None
    /\ Len(events[CalA][OwnUid][1].attendee_list) = 2
    /\ last.result.status = Some("CONFIRMED")
    /\ last.result.attendees[1][1].rsvp = 0
    /\ last.result.attendees[1][2].rsvp = 1
    /\ last.result.attendees[1][1].role = Some("REQ-PARTICIPANT")

\* The number of delimiters in a name.
Bars(name) == Cardinality({i \in DOMAIN name : name[i] = Delim})

\* Name components without a delimiter.
NameParts ==
    {<<>>, User, CalA, CalB, <<"z">>, <<"x">>, OwnUid} \cup {UuidOf(n) : n \in 1..MaxUuid}

\* The adapter's functions that take an event name, and a calendar name.
EventNameOps == {"add_event", "get_event", "update_event", "delete_event"}
CalendarNameOps == {"add_calendar", "get_calendar", "delete_calendar"}

\* C10: a name built as user|calendarId|eventUid from parts without a
\* delimiter is taken apart into exactly those parts, and a two-part
\* calendar name likewise; a name that does not split into exactly 3 parts
\* (2 for calendars) makes the call raise before any request is sent.
C10_NameRoundTrip ==
    /\ last.op \in EventNameOps =>
          /\ Bars(last.name) # 2 => (last.err = "ValueError" /\ last.calls = 0)
          /\ \A u \in NameParts, c \in NameParts, e \in NameParts :
                last.name = Join3(u, c, e) =>
                    (last.err # "ValueError" /\ last.parsed = <<u, c, e>>)
    /\ last.op \in CalendarNameOps =>
          /\ Bars(last.name) # 1 => (last.err = "ValueError" /\ last.calls = 0)
          /\ \A u \in NameParts, c \in NameParts :
                last.name = Join2(u, c) =>
                    (last.err # "ValueError" /\ last.parsed = <<u, c>>)

\* C10 witness: an event the adapter inserted into calendar b was read under
\* its three-part name, taken apart into user, calendar id and event uid.
C10_Witness ==
    /\ last.op = "get_event"
    /\ last.name = Join3(User, CalB, UuidOf(1))
    /\ last.parsed = <<User, CalB, UuidOf(1)>>
    /\ last.err = ""

----------------------------------------------------------------------------
(* Properties of the timezone normaliser *)

\* C11: the local rendering of the UTC value convert_to_utc returns denotes
\* the instant of the argument: its wall time less its own offset when it
\* carries a zone, else less the source timezone's offset when one is given,
\* else less the system zone's offset.
C11_ZoneRoundTrip ==
    last.op = "convert_to_utc" =>
        LET t == last.arg.text
            f == last.arg.from_timezone
        IN  /\ last.shown.tz # None
            /\ last.arg.naive => last.utc.off = None
            /\ last.shown.wall - last.shown.tz[1] =
                  IF t.tz # None THEN t.wall - t.tz[1]
                  ELSE IF f # None THEN t.wall - f[1]
                  ELSE t.wall - SystemOffset

\* C11 witness: 06:00 at +01:00, given with another source timezone, came
\* back as 10:30 in the system zone.
C11_Witness ==
    /\ last.op = "convert_to_utc"
    /\ last.arg.text = [wall |-> 360, tz |-> Some(60)]
    /\ last.arg.from_timezone = Some(-480)
    /\ last.arg.naive
    /\ last.utc = [t |-> 300, off |-> None]
    /\ last.shown = [wall |-> 630, tz |-> Some(SystemOffset)]

----------------------------------------------------------------------------
(* Properties of the stamps read inbound *)

\* The system-zone rendering of a naive UTC stamp.
LocalDisplay(dt) == [wall |-> dt.t + SystemOffset, tz |-> Some(SystemOffset)]

\* C12 as stated: a stored VEVENT with uid and dtstart, and with a stamp to
\* take each value from, is translated without error; creation is the local
\* rendering of created when present and of dtstamp otherwise, and modified
\* that of last-modified when present and of dtstamp otherwise.
C12_StampFallback ==
    LET v == events[CalA][OwnUid]
    IN  (/\ last.op = "get_event"
         /\ last.name = SharedName
         /\ v # None
         /\ v[1].props["uid"] # None
         /\ v[1].props["dtstart"] # None
         /\ v[1].props["created"] # None \/ v[1].props["dtstamp"] # None
         /\ v[1].props["last_modified"] # None \/ v[1].props["dtstamp"] # None)
        => /\ last.err = ""
           /\ last.result.creation =
                 LocalDisplay(IF v[1].props["created"] # None
                              THEN v[1].props["created"][1]
                              ELSE v[1].props["dtstamp"][1])
           /\ last.result.modified =
                 LocalDisplay(IF v[1].props["last_modified"] # None
                              THEN v[1].props["last_modified"][1]
                              ELSE v[1].props["dtstamp"][1])

====
